---- MODULE Spec2Model ----
(***************************************************************************)
(* The generic table-CRUD controller of controller/database.go: the HTTP   *)
(* handlers over one table of the relational backend, the WHERE clause     *)
(* they build from a condition map, and what the ORM handle model.DB does  *)
(* with the statements they hand to it; and the database page of the web   *)
(* client, which normalizes the column descriptions the controller sends.  *)
(***************************************************************************)
EXTENDS Integers, Sequences, FiniteSets, TLC

\* ------------------------------------------------------------------ bounds
\* Most rows the table holds.
MaxRows == 2
\* Most items of one bulk request.
MaxItems == 2

\* ------------------------------------------------------- values and inputs
\* The SQL NULL / JSON null / Go nil value.
NULL == "NULL"

\* The one table the backend holds: t(id NOT NULL, name NULL, email NULL).
TableNames == {"t"}
Columns == {"id", "name", "email"}
NotNullColumns == {"id"}
ColVals(c) == IF c = "id" THEN {"1", "2"} ELSE {"a", NULL}
AllVals == {"1", "2", "a", "x", NULL}
Rows == {r \in [Columns -> AllVals] : \A c \in Columns : r[c] \in ColVals(c)}

\* The :name path parameter of a request ("" is a missing name).
Names == {"", "t"}

\* JSON object bodies (map[string]interface{}): "nocol" is a key that is no
\* column of the table.  An absent (nil) map and an empty one are the same
\* map here: len() is 0 and range visits nothing for both.  The bodies that
\* are enumerated leave the email column alone.
Keys == {"id", "name", "nocol"}
KeyVals(k) == IF k \in Columns THEN ColVals(k) ELSE {"x"}
Maps == UNION {{m \in [S -> AllVals] : \A k \in S : m[k] \in KeyVals(k)} : S \in SUBSET Keys}
EmptyMap == [k \in {} |-> NULL]
M1(k, v) == [x \in {k} |-> v]
M2(k1, v1, k2, v2) == [x \in {k1, k2} |-> IF x = k1 THEN v1 ELSE v2]

\* The backend kind that common.UsingSQLite / UsingMySQL / UsingPostgreSQL
\* select ("none": no flag is set), as a request finds it.
DbTypes == {"sqlite", "mysql", "postgres", "none"}

\* Raw page / page_size query parameters.
QueryVals == {"absent", "abc", "0", "1", "2"}

\* Items of the bulk requests that are enumerated.
Item(c, u) == [condition |-> c, update |-> u]
BulkUpdateItems ==
    { Item(M1("id", "1"), M1("name", NULL)),
      Item(M1("name", "a"), M1("id", "2")),
      Item(EmptyMap, M1("name", NULL)),
      Item(M1("id", "2"), EmptyMap),
      Item(M1("id", "1"), M1("nocol", "x")) }
BulkDeleteConds ==
    { EmptyMap, M1("id", "1"), M2("id", "2", "name", "a"), M1("nocol", "x") }
\* Items of the batches that run with no other request beside them: the
\* second matches what the first one writes.
BatchUpdates ==
    { Item(M1("name", "a"), M1("id", "2")),
      Item(M1("id", "2"), M1("name", NULL)),
      Item(EmptyMap, M1("name", NULL)),
      Item(M1("id", "1"), EmptyMap) }
BatchRows == { M2("id", "1", "name", "a"), M1("id", "2") }
\* Conditions of the single delete that runs beside a batch.
ConcurrentConds == { M1("id", "2") }

SeqsUpTo(S, n) == UNION {[1..k -> S] : k \in 0..n}

\* Most requests of one client session that is followed from its start.
MaxRequests == 5
\* The bodies of such a session: rows that are inserted, the updates and the
\* conditions of the deletes.
M3(id, name, email) == [x \in Columns |-> IF x = "id" THEN id ELSE IF x = "name" THEN name ELSE email]
SessionRows == { M3("1", "a", NULL), M3("2", NULL, "e") }
SessionUpdates == { Item(M1("id", "1"), M1("name", "b")) }
SessionConds == { M3("1", "b", NULL), M3("2", NULL, "e"), M1("id", "1"), M2("id", "2", "email", "e") }

\* Most columns of a table whose description the page loads.
MaxColumns == 2
\* Raw column descriptions as the three backends report them, for a column
\* "id" of any table: PRAGMA table_info rows (an empty type is a column
\* declared without one, pk is the column's place in the primary key),
\* DESCRIBE rows and information_schema.columns rows.
SqliteColumns ==
    [cid : {0}, name : {"id"}, type : {"INTEGER", ""}, notnull : {0, 1},
     dflt_value : {NULL, "0"}, pk : {0, 1, 2}]
MysqlColumns ==
    [Field : {"id"}, Type : {"int"}, Null : {"YES", "NO"}, Key : {"", "PRI", "UNI"},
     Default : {NULL, "0"}, Extra : {"", "auto_increment"}]
PostgresColumns ==
    [column_name : {"id"}, data_type : {"integer"}, is_nullable : {"YES", "NO"},
     column_default : {NULL, "0"}]
\* DESCRIBE rows of a column that is not named id.
EmailColumns ==
    [Field : {"email"}, Type : {"text"}, Null : {"YES"}, Key : {"", "PRI"},
     Default : {NULL}, Extra : {""}]
RawColumns == SqliteColumns \cup MysqlColumns \cup PostgresColumns \cup EmailColumns

\* Most rows of the table that the paginated reads run over.
MaxPageRows == 12
\* Raw page / page_size query parameters of those reads.
PageQueryVals == {"absent", "abc", "-1", "0", "1", "2", "3", "10", "11"}
\* How a read fails: not at all, in the count query, or in the row query.
ReadFailures == {"", "count", "find"}

\* Values of a temporal column as the driver hands them over: a time.Time, a
\* *time.Time (nil or not) or an untyped nil.  unix is the instant in hours
\* since the epoch, offset the zone of the value's location in hours east.
Time(type, nil, unix, offset) == [type |-> type, nil |-> nil, unix |-> unix, offset |-> offset]
TimeColumns == {"created_at"}
TimeVals ==
    << Time("time.Time", FALSE, 5, 0),
       Time("time.Time", FALSE, 23, 8),
       Time("*time.Time", TRUE, 0, 0),
       Time("*time.Time", FALSE, 30, -5),
       Time("nil", TRUE, 0, 0) >>
\* A table with a temporal column: row i has id i, and the temporal values
\* take turns.
PageRow(i) == [id |-> ToString(i), created_at |-> TimeVals[(i % Len(TimeVals)) + 1]]
PageTable(n) == [i \in 1..n |-> PageRow(i)]

\* --------------------------------------------------------------- the state
VARIABLES
    table,              \* the rows of table t, in the backend's row order
    act,                \* the handler that answered last ("closed": none)
    before,             \* the table when that handler was entered
    req,                \* the request it answered
    resp,               \* its response (status 0: none)
    calls,              \* the ORM calls it made, in order
    bulk,               \* the bulk request in flight, with its loop state
    log,                \* the exchanges answered since the last Close, in order
    reading,            \* the paginated read in flight, between its two queries
    columnsMeta,        \* the page's column metadata (React state columnsMeta)
    ui,                 \* the rest of the page's React state and its requests in flight
    channels            \* the channel table's React state and its requests in flight

uiVars == <<columnsMeta, ui, channels>>
vars == <<table, act, before, req, resp, calls, bulk, log, reading, columnsMeta, ui, channels>>

\* ------------------------------------------------- the ORM and the backend
ErrMissingWhereClause == "WHERE conditions required"
ErrNoColumn == "no such column"
ErrNotNull == "NOT NULL constraint failed"

\* model.DB is gorm with its default configuration (AllowGlobalUpdate unset):
\* an Updates or Delete without any condition is refused with
\* ErrMissingWhereClause before a statement is sent, and an Updates with
\* nothing to set returns without a statement and without an error.

\* SQL equality of `col = ?`: NULL equals nothing.
SqlEq(a, b) == a # NULL /\ b # NULL /\ a = b

\* where += "`k` = ?" joined by " AND ", args = append(args, v): the set of
\* the conjuncts (the order of a Go map's range does not matter to AND).
BuildWhereFirst(cond) ==
    IF DOMAIN cond = {} THEN {}
    ELSE LET k == CHOOSE x \in DOMAIN cond : TRUE IN {<<k, cond[k]>>}
BuildWhere(cond) == {<<k, cond[k]>> : k \in DOMAIN cond}
WhereCols(where) == {p[1] : p \in where}
RowMatches(row, where) == \A p \in where : SqlEq(row[p[1]], p[2])
NumMatches(tbl, where) == Cardinality({i \in 1..Len(tbl) : RowMatches(tbl[i], where)})

Tx(err, rows, tbl) == [err |-> err, rows |-> rows, table |-> tbl]

\* model.DB.Table(t).Where(where, args...).Updates(upd)
GormUpdates(tbl, where, upd) ==
    IF DOMAIN upd = {} THEN Tx("", 0, tbl)
    ELSE IF where = {} THEN Tx(ErrMissingWhereClause, 0, tbl)
    ELSE IF ~(WhereCols(where) \subseteq Columns /\ DOMAIN upd \subseteq Columns)
         THEN Tx(ErrNoColumn, 0, tbl)
    ELSE Tx("", NumMatches(tbl, where),
            [i \in 1..Len(tbl) |->
                IF RowMatches(tbl[i], where)
                THEN [c \in Columns |-> IF c \in DOMAIN upd THEN upd[c] ELSE tbl[i][c]]
                ELSE tbl[i]])

RECURSIVE Remove(_, _)
Remove(tbl, where) ==
    IF tbl = << >> THEN << >>
    ELSE IF RowMatches(Head(tbl), where) THEN Remove(Tail(tbl), where)
    ELSE <<Head(tbl)>> \o Remove(Tail(tbl), where)

\* model.DB.Table(t).Where(where, args...).Delete(nil)
GormDelete(tbl, where) ==
    IF where = {} THEN Tx(ErrMissingWhereClause, 0, tbl)
    ELSE IF ~(WhereCols(where) \subseteq Columns) THEN Tx(ErrNoColumn, 0, tbl)
    ELSE Tx("", NumMatches(tbl, where), Remove(tbl, where))

\* model.DB.Table(t).Create(&data): absent columns get the default NULL.
GormCreate(tbl, data) ==
    IF ~(DOMAIN data \subseteq Columns) THEN Tx(ErrNoColumn, 0, tbl)
    ELSE IF \E c \in NotNullColumns : c \notin DOMAIN data \/ data[c] = NULL
         THEN Tx(ErrNotNull, 0, tbl)
    ELSE Tx("", 1, Append(tbl, [c \in Columns |-> IF c \in DOMAIN data THEN data[c] ELSE NULL]))

\* model.DB.Table(t).Count(&total): SELECT count(*), every row counts.
GormCountNamed(tbl) == Cardinality({i \in 1..Len(tbl) : tbl[i]["name"] # NULL})
GormCount(tbl) == Len(tbl)

\* model.DB.Table(t).Offset(offset).Limit(limit).Find(&results): the rows
\* in the backend's row order; gorm writes OFFSET only when it is positive
\* and LIMIT only when it is not negative.
GormFindFromStart(tbl, offset, limit) ==
    SubSeq(tbl, 1, IF limit < Len(tbl) THEN limit ELSE Len(tbl))
GormFind(tbl, offset, limit) ==
    LET off == IF offset > 0 THEN offset ELSE 0
        lim == IF limit >= 0 THEN limit ELSE Len(tbl)
    IN  SubSeq(tbl, off + 1, IF off + lim < Len(tbl) THEN off + lim ELSE Len(tbl))

\* The error of a query that the backend could not run.
ErrBackend == "database is closed"

Call(stmt, where, set, err) == [stmt |-> stmt, where |-> where, set |-> set, err |-> err]

\* ------------------------------------------------- requests and responses
BaseReq ==
    [op |-> "", name |-> "", bodyOk |-> TRUE, db |-> "none",
     condition |-> EmptyMap, update |-> EmptyMap, data |-> EmptyMap,
     items |-> << >>, page |-> "absent", page_size |-> "absent"]

BaseResp ==
    [status |-> 0, success |-> FALSE, message |-> "", err |-> "",
     fields |-> {}, rows |-> 0, results |-> << >>, data |-> << >>, total |-> 0]

\* c.JSON(status, gin.H{"success": ..., "message": msg + err})
Json(status, success, message, err) ==
    [BaseResp EXCEPT !.status = status, !.success = success, !.message = message,
                     !.err = err, !.fields = {"success", "message"}]
WithRows(r, n) == [r EXCEPT !.rows = n, !.fields = @ \cup {"rows"}]
WithResults(r, rs) == [r EXCEPT !.results = rs, !.fields = @ \cup {"results"}]
WithData(r, d) == [r EXCEPT !.data = d, !.fields = @ \cup {"data"}]
WithTotal(r, n) == [r EXCEPT !.total = n, !.fields = @ \cup {"total"}]

\* The bulk request in flight: its body, the loop index, the results and
\* the ORM calls so far, and the table when the handler was entered (start)
\* and before and after the statement of the item handled last.
IdleBulk ==
    [pc |-> "idle", op |-> "", name |-> "", items |-> << >>, i |-> 1,
     results |-> << >>, calls |-> << >>, start |-> << >>,
     before |-> << >>, after |-> << >>]

\* A handler step that answers the request at once.
\* One exchange: the request, its response and the table before and after.
Entry(op, rq, rs, tbl) ==
    [req |-> [rq EXCEPT !.op = op], resp |-> rs, before |-> table, after |-> tbl]

Reply(op, rq, rs, tbl, cs) ==
    /\ act' = op
    /\ before' = table
    /\ req' = [rq EXCEPT !.op = op]
    /\ resp' = rs
    /\ table' = tbl
    /\ calls' = cs
    /\ log' = Append(log, Entry(op, rq, rs, tbl))
    /\ UNCHANGED <<bulk, reading, uiVars>>

BadName == Json(400, FALSE, "Table name is required", "")
BadBody == Json(400, FALSE, "Invalid request body: ", "bind")

\* ------------------------------------------------------------ the handlers
\* The catalog queries: what each backend reports for t(id NOT NULL, name,
\* email).  The integer columns of PRAGMA table_info are JSON numbers.
ListTables(db) == <<"t">>
DescribeTable(db) ==
    CASE db = "sqlite" ->
            << [cid |-> 0, name |-> "id", type |-> "INTEGER", notnull |-> 1,
                dflt_value |-> NULL, pk |-> 0],
               [cid |-> 1, name |-> "name", type |-> "TEXT", notnull |-> 0,
                dflt_value |-> NULL, pk |-> 0],
               [cid |-> 2, name |-> "email", type |-> "TEXT", notnull |-> 0,
                dflt_value |-> NULL, pk |-> 0] >>
      [] db = "mysql" ->
            << [Field |-> "id", Type |-> "int", Null |-> "NO", Key |-> "",
                Default |-> NULL, Extra |-> ""],
               [Field |-> "name", Type |-> "text", Null |-> "YES", Key |-> "",
                Default |-> NULL, Extra |-> ""],
               [Field |-> "email", Type |-> "text", Null |-> "YES", Key |-> "",
                Default |-> NULL, Extra |-> ""] >>
      [] OTHER ->
            << [column_name |-> "id", data_type |-> "integer", is_nullable |-> "NO",
                column_default |-> NULL],
               [column_name |-> "name", data_type |-> "text", is_nullable |-> "YES",
                column_default |-> NULL],
               [column_name |-> "email", data_type |-> "text", is_nullable |-> "YES",
                column_default |-> NULL] >>

Unsupported == Json(500, FALSE, "Unsupported database type", "")

\* if common.UsingSQLite {..} else if common.UsingMySQL {..} else if
\* common.UsingPostgreSQL {..} else { 500 }: the kinds that have a branch,
\* and the raw query of each branch.
SupportedOrElse(db) == TRUE
Supported(db) == db \in {"sqlite", "mysql", "postgres"}
TablesQuery(db) ==
    CASE db = "sqlite" -> "SELECT name, type FROM sqlite_master"
      [] db = "mysql" -> "SHOW TABLES"
      [] OTHER -> "SELECT tablename FROM pg_tables"
InfoQuery(db) ==
    CASE db = "sqlite" -> "PRAGMA table_info"
      [] db = "mysql" -> "DESCRIBE"
      [] OTHER -> "SELECT column_name, data_type, is_nullable, column_default FROM information_schema.columns"

GetTables(db, fail) ==
    LET rq == [BaseReq EXCEPT !.db = db]
    IN  IF ~Supported(db) THEN Reply("GetTables", rq, Unsupported, table, << >>)
        ELSE IF fail
             THEN Reply("GetTables", rq,
                        Json(500, FALSE, "Failed to get table names: ", ErrBackend),
                        table, <<Call(TablesQuery(db), {}, EmptyMap, ErrBackend)>>)
        ELSE Reply("GetTables", rq,
                   WithData(Json(200, TRUE, "Success", ""), ListTables(db)),
                   table, <<Call(TablesQuery(db), {}, EmptyMap, "")>>)

GetTableInfo(name, db, fail) ==
    LET rq == [BaseReq EXCEPT !.name = name, !.db = db]
    IN  IF name = "" THEN Reply("GetTableInfo", rq, BadName, table, << >>)
        ELSE IF ~Supported(db) THEN Reply("GetTableInfo", rq, Unsupported, table, << >>)
        ELSE IF fail
             THEN Reply("GetTableInfo", rq,
                        Json(500, FALSE, "Failed to get table info: ", ErrBackend),
                        table, <<Call(InfoQuery(db), {}, EmptyMap, ErrBackend)>>)
        ELSE Reply("GetTableInfo", rq,
                   WithData(Json(200, TRUE, "Success", ""), DescribeTable(db)),
                   table, <<Call(InfoQuery(db), {}, EmptyMap, "")>>)

\* strconv.Atoi with its error dropped: a text that is no number gives 0.
Atoi(s) ==
    CASE s = "-1" -> -1 [] s = "1" -> 1 [] s = "2" -> 2 [] s = "3" -> 3
      [] s = "10" -> 10 [] s = "11" -> 11 [] OTHER -> 0
DefaultQuery(v, def) == IF v = "absent" THEN def ELSE v

\* if page <= 0 { page = 1 }; if pageSize <= 0 { pageSize = 10 }
DefaultPage == 1
DefaultPageSize == 10
PositiveOrNegativeOnly(n, def) == IF n < 0 THEN def ELSE n
PositiveOr(n, def) == IF n <= 0 THEN def ELSE n

\* tv.UTC(): the same instant in the UTC location.
UTCKeepLocation(tv) == tv
UTC(tv) == [tv EXCEPT !.offset = 0]
\* tv.Format(time.RFC3339), "2006-01-02T15:04:05Z07:00": the wall clock of
\* the value's location and its zone, "Z" for an offset of zero.
TwoDigits(n) == IF n < 10 THEN "0" \o ToString(n) ELSE ToString(n)
Zone(offset) ==
    IF offset = 0 THEN "Z"
    ELSE (IF offset > 0 THEN "+" ELSE "-")
         \o TwoDigits(IF offset > 0 THEN offset ELSE -offset) \o ":00"
Format(tv) ==
    LET wall == tv.unix + tv.offset
    IN  "1970-01-" \o TwoDigits((wall \div 24) + 1) \o "T" \o TwoDigits(wall % 24)
        \o ":00:00" \o Zone(tv.offset)
\* switch tv := v.(type): a time.Time and a non-nil *time.Time become text, a
\* nil *time.Time becomes nil, any other value stays.
ConvertValue(v) ==
    CASE v.type = "time.Time" -> Format(UTC(v))
      [] v.type = "*time.Time" -> IF v.nil THEN NULL ELSE Format(UTC(v))
      [] OTHER -> v
\* for k, v := range results[i]: the dynamic type of v is the one the driver
\* gives the values of column k.
ConvertRow(row) ==
    [k \in DOMAIN row |-> IF k \in TimeColumns THEN ConvertValue(row[k]) ELSE row[k]]
ConvertTimes(results) == [i \in 1..Len(results) |-> ConvertRow(results[i])]

\* The answers to a failed count query and to a failed row query, the
\* latter after a count that succeeded.
CountFailed == Json(500, FALSE, "Failed to count records: ", ErrBackend)
FindFailedWithTotal(total) ==
    WithTotal(Json(500, FALSE, "Failed to get table data: ", ErrBackend), total)
FindFailed(total) == Json(500, FALSE, "Failed to get table data: ", ErrBackend)

GetTableData(name, pageQ, sizeQ, fail) ==
    LET rq == [BaseReq EXCEPT !.name = name, !.page = pageQ, !.page_size = sizeQ]
        page == PositiveOr(Atoi(DefaultQuery(pageQ, "1")), DefaultPage)
        pageSize == PositiveOr(Atoi(DefaultQuery(sizeQ, "10")), DefaultPageSize)
        total == GormCount(table)
        results == GormFind(table, (page - 1) * pageSize, pageSize)
    IN  IF name = "" THEN Reply("GetTableData", rq, BadName, table, << >>)
        ELSE IF fail = "count"
             THEN Reply("GetTableData", rq, CountFailed,
                        table, <<Call("COUNT", {}, EmptyMap, ErrBackend)>>)
        ELSE IF fail = "find"
             THEN Reply("GetTableData", rq, FindFailed(total),
                        table,
                        <<Call("COUNT", {}, EmptyMap, ""), Call("SELECT", {}, EmptyMap, ErrBackend)>>)
        ELSE Reply("GetTableData", rq,
                   WithTotal(WithData(Json(200, TRUE, "Success", ""), ConvertTimes(results)),
                             total),
                   table,
                   <<Call("COUNT", {}, EmptyMap, ""), Call("SELECT", {}, EmptyMap, "")>>)

\* The same handler in its two statements, for the requests that are served
\* between them: the count, then the row query and the response.
IdleRead == [pc |-> "idle", req |-> BaseReq, total |-> 0, start |-> << >>]
ReadCount(name, pageQ, sizeQ, fail) ==
    LET rq == [BaseReq EXCEPT !.name = name, !.page = pageQ, !.page_size = sizeQ]
    IN  /\ reading.pc = "idle"
        /\ IF fail = "count"
           THEN Reply("GetTableData", rq, CountFailed,
                      table, <<Call("COUNT", {}, EmptyMap, ErrBackend)>>)
           ELSE /\ reading' = [pc |-> "counted", req |-> rq, total |-> GormCount(table),
                               start |-> table]
                /\ UNCHANGED <<table, act, before, req, resp, calls, bulk, log, uiVars>>

ReadFind(fail) ==
    LET rq == [reading.req EXCEPT !.op = "GetTableData"]
        page == PositiveOr(Atoi(DefaultQuery(rq.page, "1")), DefaultPage)
        pageSize == PositiveOr(Atoi(DefaultQuery(rq.page_size, "10")), DefaultPageSize)
        total == reading.total
        results == GormFind(table, (page - 1) * pageSize, pageSize)
        rs == IF fail = "find" THEN FindFailed(total)
              ELSE WithTotal(WithData(Json(200, TRUE, "Success", ""), ConvertTimes(results)),
                             total)
    IN  /\ reading.pc = "counted"
        /\ act' = "GetTableData"
        /\ before' = reading.start
        /\ req' = rq
        /\ resp' = rs
        /\ calls' = <<Call("COUNT", {}, EmptyMap, ""),
                      Call("SELECT", {}, EmptyMap, IF fail = "find" THEN ErrBackend ELSE "")>>
        /\ log' = Append(log, [req |-> rq, resp |-> rs, before |-> reading.start,
                               after |-> table])
        /\ reading' = IdleRead
        /\ UNCHANGED <<table, bulk, uiVars>>

CreateTableData(name, bodyOk, data) ==
    LET rq == [BaseReq EXCEPT !.name = name, !.bodyOk = bodyOk, !.data = data]
        tx == GormCreate(table, data)
    IN  IF name = "" THEN Reply("CreateTableData", rq, BadName, table, << >>)
        ELSE IF ~bodyOk THEN Reply("CreateTableData", rq, BadBody, table, << >>)
        ELSE IF tx.err # ""
             THEN Reply("CreateTableData", rq,
                        Json(500, FALSE, "Failed to create record: ", tx.err),
                        tx.table, <<Call("INSERT", {}, data, tx.err)>>)
        ELSE Reply("CreateTableData", rq,
                   Json(200, TRUE, "Record created successfully", ""),
                   tx.table, <<Call("INSERT", {}, data, "")>>)

UpdateInvalidBoth(cond, upd) == DOMAIN cond = {} /\ DOMAIN upd = {}
UpdateInvalid(cond, upd) == DOMAIN cond = {} \/ DOMAIN upd = {}

UpdateTableData(name, bodyOk, cond, upd) ==
    LET rq == [BaseReq EXCEPT !.name = name, !.bodyOk = bodyOk,
                              !.condition = cond, !.update = upd]
        where == BuildWhere(cond)
        tx == GormUpdates(table, where, upd)
    IN  IF name = "" THEN Reply("UpdateTableData", rq, BadName, table, << >>)
        ELSE IF ~bodyOk THEN Reply("UpdateTableData", rq, BadBody, table, << >>)
        ELSE IF UpdateInvalid(cond, upd)
             THEN Reply("UpdateTableData", rq,
                        Json(400, FALSE, "Both condition and update are required", ""),
                        table, << >>)
        ELSE IF tx.err # ""
             THEN Reply("UpdateTableData", rq,
                        WithRows(Json(500, FALSE, "Failed to update record: ", tx.err), tx.rows),
                        tx.table, <<Call("UPDATE", where, upd, tx.err)>>)
        ELSE Reply("UpdateTableData", rq,
                   WithRows(Json(200, TRUE, "Record updated successfully", ""), tx.rows),
                   tx.table, <<Call("UPDATE", where, upd, "")>>)

DeleteTableData(name, bodyOk, data) ==
    LET rq == [BaseReq EXCEPT !.name = name, !.bodyOk = bodyOk, !.data = data]
        where == BuildWhere(data)
        tx == GormDelete(table, where)
    IN  IF name = "" THEN Reply("DeleteTableData", rq, BadName, table, << >>)
        ELSE IF ~bodyOk THEN Reply("DeleteTableData", rq, BadBody, table, << >>)
        ELSE IF tx.err # ""
             THEN Reply("DeleteTableData", rq,
                        WithRows(Json(500, FALSE, "Failed to delete record: ", tx.err), tx.rows),
                        tx.table, <<Call("DELETE", where, EmptyMap, tx.err)>>)
        ELSE Reply("DeleteTableData", rq,
                   WithRows(Json(200, TRUE, "Record deleted successfully", ""), tx.rows),
                   tx.table, <<Call("DELETE", where, EmptyMap, "")>>)

\* ------------------------------------------------------- the bulk handlers
\* len(req.Items) == 0 / len(req.Conditions) == 0
BulkEmptyNever(items) == FALSE
BulkEmpty(items) == Len(items) = 0

\* res := {"ok": true, "error": ""} and the echo of the condition.
UpdateResult(cond) ==
    [ok |-> TRUE, error |-> "",
     fields |-> {"ok", "error"} \cup (IF "id" \in DOMAIN cond THEN {"id"} ELSE {}),
     id |-> IF "id" \in DOMAIN cond THEN cond["id"] ELSE "",
     condition |-> EmptyMap]
DeleteResultBoth(cond) ==
    [ok |-> TRUE, error |-> "",
     fields |-> {"ok", "error", "condition"} \cup (IF "id" \in DOMAIN cond THEN {"id"} ELSE {}),
     id |-> IF "id" \in DOMAIN cond THEN cond["id"] ELSE "",
     condition |-> cond]
DeleteResult(cond) ==
    [ok |-> TRUE, error |-> "",
     fields |-> {"ok", "error"} \cup (IF "id" \in DOMAIN cond THEN {"id"} ELSE {"condition"}),
     id |-> IF "id" \in DOMAIN cond THEN cond["id"] ELSE "",
     condition |-> IF "id" \in DOMAIN cond THEN EmptyMap ELSE cond]

\* if tx.Error != nil { res["ok"] = false; res["error"] = tx.Error.Error() }
ItemErrorNoRows(tx) == IF tx.err = "" /\ tx.rows = 0 THEN "record not found" ELSE tx.err
ItemError(tx) == tx.err
Outcome(res, err) == IF err # "" THEN [res EXCEPT !.ok = FALSE, !.error = err] ELSE res

\* results = append(results, res)
AppendResultFront(results, res) == <<res>> \o results
AppendResult(results, res) == Append(results, res)

\* for _, item := range req.Items: the next item, whatever this one did.
NextItemBreak(i, err, n) == IF err # "" THEN n + 1 ELSE i + 1
NextItem(i, err, n) == i + 1

\* The table an item's statement leaves: it commits on its own, and no
\* transaction spans the batch.
CommitItemRollback(start, tx) == IF tx.err # "" THEN start ELSE tx.table
CommitItem(start, tx) == tx.table

BulkBegin(op, name, bodyOk, items) ==
    LET rq == [BaseReq EXCEPT !.name = name, !.bodyOk = bodyOk, !.items = items]
        what == IF op = "BulkUpdateTableData"
                THEN "Items are required for bulk update"
                ELSE "Conditions are required for bulk delete"
    IN  /\ bulk.pc = "idle"
        /\ IF name = "" THEN Reply(op, rq, BadName, table, << >>)
           ELSE IF ~bodyOk THEN Reply(op, rq, BadBody, table, << >>)
           ELSE IF BulkEmpty(items)
                THEN Reply(op, rq, Json(400, FALSE, what, ""), table, << >>)
           ELSE /\ bulk' = [IdleBulk EXCEPT !.pc = "run", !.op = op, !.name = name,
                                            !.items = items, !.start = table,
                                            !.before = table, !.after = table]
                /\ UNCHANGED <<table, act, before, req, resp, calls, log, reading, uiVars>>

BulkUpdateTableData(name, bodyOk, items) ==
    BulkBegin("BulkUpdateTableData", name, bodyOk, items)

BulkDeleteTableData(name, bodyOk, conditions) ==
    BulkBegin("BulkDeleteTableData", name, bodyOk,
              [i \in 1..Len(conditions) |-> Item(conditions[i], EmptyMap)])

\* One turn of the loop: the statement of item bulk.i and its result.
BulkStep(tx, stmt, where, set, res0) ==
    LET err == ItemError(tx)
        tbl == CommitItem(bulk.start, tx)
    IN  /\ table' = tbl
        /\ bulk' = [bulk EXCEPT !.i = NextItem(bulk.i, err, Len(bulk.items)),
                                !.results = AppendResult(@, Outcome(res0, err)),
                                !.calls = Append(@, Call(stmt, where, set, tx.err)),
                                !.before = table,
                                !.after = tbl]
        /\ UNCHANGED <<act, before, req, resp, calls, log, reading, uiVars>>

\* for _, item := range req.Items: turn i of the loop takes item i.
ItemAtFromEnd(items, i) == items[Len(items) + 1 - i]
ItemAt(items, i) == items[i]

BulkUpdateItem ==
    /\ bulk.pc = "run"
    /\ bulk.op = "BulkUpdateTableData"
    /\ bulk.i <= Len(bulk.items)
    /\ LET item == ItemAt(bulk.items, bulk.i)
           where == BuildWhere(item.condition)
       IN  BulkStep(GormUpdates(table, where, item.update),
                    "UPDATE", where, item.update, UpdateResult(item.condition))

BulkDeleteItem ==
    /\ bulk.pc = "run"
    /\ bulk.op = "BulkDeleteTableData"
    /\ bulk.i <= Len(bulk.items)
    /\ LET item == ItemAt(bulk.items, bulk.i)
           where == BuildWhere(item.condition)
       IN  BulkStep(GormDelete(table, where),
                    "DELETE", where, EmptyMap, DeleteResult(item.condition))

\* c.JSON(http.StatusOK, ...) after the loop.
BulkResponse ==
    /\ bulk.pc = "run"
    /\ bulk.i > Len(bulk.items)
    /\ LET rq == [BaseReq EXCEPT !.op = bulk.op, !.name = bulk.name, !.items = bulk.items]
           rs == WithResults(Json(200, TRUE,
                                  IF bulk.op = "BulkUpdateTableData"
                                  THEN "Bulk update finished" ELSE "Bulk delete finished", ""),
                             bulk.results)
       IN  /\ act' = bulk.op
           /\ before' = bulk.start
           /\ req' = rq
           /\ resp' = rs
           /\ calls' = bulk.calls
           /\ log' = Append(log, [req |-> rq, resp |-> rs, before |-> bulk.start, after |-> table])
    /\ bulk' = IdleBulk
    /\ UNCHANGED <<table, reading, uiVars>>

\* What the single update / the single delete of one item leaves of a table,
\* and what a list of them leaves when they are served one after the other.
SingleUpdate(tbl, item) ==
    IF UpdateInvalid(item.condition, item.update) THEN tbl
    ELSE GormUpdates(tbl, BuildWhere(item.condition), item.update).table
SingleDelete(tbl, item) == GormDelete(tbl, BuildWhere(item.condition)).table
RECURSIVE OneByOne(_, _, _)
OneByOne(op, tbl, items) ==
    IF items = << >> THEN tbl
    ELSE OneByOne(op,
                  IF op = "BulkUpdateTableData" THEN SingleUpdate(tbl, Head(items))
                  ELSE SingleDelete(tbl, Head(items)),
                  Tail(items))

\* ------------------------------------------------------ the database page
\* JavaScript's undefined: what reading a field that an object lacks gives.
UNDEFINED == "undefined"
\* The fields that hold numbers; every other field holds a string or null.
NumericFields == {"cid", "notnull", "pk"}
\* c.f
Get(c, f) == IF f \in DOMAIN c THEN c[f] ELSE UNDEFINED
\* c.f as a condition: undefined, null, "" and 0 are false.
TruthyIfPresent(c, f) == f \in DOMAIN c
Truthy(c, f) ==
    /\ f \in DOMAIN c
    /\ IF f \in NumericFields THEN c[f] # 0 ELSE c[f] \notin {"", NULL}
\* c.f === v, for a v of the kind that field f holds
StrictEquals(c, f, v) == f \in DOMAIN c /\ c[f] = v
\* c.f ?? c.g
Nullish(c, f, g) == IF f \in DOMAIN c /\ c[f] # NULL THEN c[f] ELSE Get(c, g)
\* c.f || c.g
Or(c, f, g) == IF Truthy(c, f) THEN c[f] ELSE Get(c, g)

\* data.data.map((c) => { if (c.name) {...} return {...} })
Normalize(c) ==
    IF Truthy(c, "name")
    THEN [name |-> c["name"],
          type |-> Or(c, "type", "data_type"),
          pk |-> Truthy(c, "pk") \/ StrictEquals(c, "key", "PRI"),
          nullable |-> StrictEquals(c, "is_nullable", "YES") \/ StrictEquals(c, "notnull", 0),
          default |-> Nullish(c, "column_default", "dflt_value"),
          extra |-> Get(c, "extra")]
    ELSE [name |-> Get(c, "Field"),
          type |-> Get(c, "Type"),
          pk |-> StrictEquals(c, "Key", "PRI"),
          nullable |-> StrictEquals(c, "Null", "YES"),
          default |-> Get(c, "Default"),
          extra |-> Get(c, "Extra")]

\* cols.find(test): the place of the first element that passes, from i on
\* (0: none), tests[k] telling whether element k passes.
RECURSIVE find(_, _)
find(tests, i) ==
    IF i > Len(tests) THEN 0 ELSE IF tests[i] THEN i ELSE find(tests, i + 1)
IsPk(cols) == [i \in 1..Len(cols) |-> cols[i].pk]
IsId(cols) == [i \in 1..Len(cols) |-> cols[i].name = "id"]
\* getPrimaryKeyName(cols): the first column flagged pk, else the column
\* named id, else undefined.
getPrimaryKeyName(cols) ==
    IF Len(cols) = 0 THEN UNDEFINED
    ELSE IF find(IsPk(cols), 1) # 0 THEN cols[find(IsPk(cols), 1)].name
    ELSE IF find(IsId(cols), 1) # 0 THEN cols[find(IsId(cols), 1)].name
    ELSE UNDEFINED

\* getRowKey(cols) of pages/Database/index.js, the page's other edition: the
\* column it takes for the primary key (record[rowKey] is the id it sends).
indexGetRowKey(cols) ==
    IF find(IsPk(cols), 1) # 0 THEN cols[find(IsPk(cols), 1)].name
    ELSE IF find(IsId(cols), 1) # 0 THEN "id"
    ELSE IF Len(cols) > 0 /\ cols[1].name \notin {UNDEFINED, NULL, ""} THEN cols[1].name
    ELSE "id"

\* The page's state when it is opened (the useState initial values); no
\* request is in flight and no bulk request has been sent.
InitUi ==
    [activeTable |-> "",
     tableData |-> << >>,
     pagination |-> [current |-> 1, pageSize |-> 10, total |-> 0],
     selectedRowKeys |-> << >>,
     updatePk |-> "id",
     pending |-> {},
     sent |-> << >>,
     dataOf |-> ""]
InfoRequest(tableName) == [kind |-> "info", table |-> tableName, page |-> 0, pageSize |-> 0]

\* The answers of GET /api/database/tables/:name/info that the page gets:
\* the description of a table, or an error.
InfoAnswers ==
    {WithData(Json(200, TRUE, "Success", ""), cols) : cols \in SeqsUpTo(RawColumns, MaxColumns)}
        \cup {Unsupported}

\* getTableInfo(tableName), given the answer to its request.
getTableInfo(tableName, answer) ==
    /\ columnsMeta' = IF ~answer.success THEN columnsMeta
                      ELSE [i \in 1..Len(answer.data) |-> Normalize(answer.data[i])]
    /\ ui' = [ui EXCEPT !.updatePk = IF ~answer.success THEN @
                                     ELSE getPrimaryKeyName(columnsMeta'),
                        !.pending = @ \ {InfoRequest(tableName)}]
    /\ act' = "getTableInfo"
    /\ before' = table
    /\ req' = [BaseReq EXCEPT !.op = "getTableInfo", !.name = tableName]
    /\ resp' = answer
    /\ calls' = << >>
    /\ UNCHANGED <<table, bulk, log, reading, channels>>

\* The page is left: its state is gone, and a page opened later starts
\* from useState([]).
Unmount ==
    /\ act = "getTableInfo"
    /\ columnsMeta' = << >>
    /\ ui' = InitUi
    /\ act' = "closed"
    /\ before' = << >>
    /\ req' = BaseReq
    /\ resp' = BaseResp
    /\ calls' = << >>
    /\ UNCHANGED <<table, bulk, log, reading, channels>>

\* ------------------------------------------- the page's rows and requests
\* The tables behind the page: t, whose rows the requests change, and a
\* second table u of the same columns that the user only looks at.  Two rows
\* of t differ in name only, one NULL and one the empty text.
UiRows == << M3("1", NULL, "e"), M3("1", "", "e"), M3("2", "a", "e") >>
OtherRows == << M3("3", "a", "e") >>
TableOf(tableName) == IF tableName = "t" THEN table ELSE OtherRows

\* What GET /api/database/tables/:name?page=&page_size= answers when both
\* queries succeed.
FetchPage(tbl, page, pageSize) ==
    LET p == PositiveOr(page, DefaultPage)
        n == PositiveOr(pageSize, DefaultPageSize)
    IN  [data |-> ConvertTimes(GormFind(tbl, (p - 1) * n, n)), total |-> GormCount(tbl)]

\* String(v ?? ''), strs.join(sep) and JSON.stringify(record), whose keys
\* come in the order the server's encoder writes them (sorted).
Text(v) == IF v \in {NULL, UNDEFINED} THEN "" ELSE v
RECURSIVE join(_, _)
join(strs, sep) ==
    IF Len(strs) = 0 THEN ""
    ELSE IF Len(strs) = 1 THEN strs[1]
    ELSE strs[1] \o sep \o join(Tail(strs), sep)
KeyOrder == <<"email", "id", "name">>
RECURSIVE stringify(_, _)
stringify(record, i) ==
    IF i > Len(KeyOrder) THEN ""
    ELSE (IF KeyOrder[i] \in DOMAIN record
          THEN KeyOrder[i] \o ":" \o (IF record[KeyOrder[i]] = NULL THEN "null"
                                      ELSE "'" \o record[KeyOrder[i]] \o "'") \o ","
          ELSE "") \o stringify(record, i + 1)

\* getRowKey(cols)(record)
getRowKey(cols, record) ==
    IF Len(cols) = 0 THEN stringify(record, 1)
    ELSE join([i \in 1..Len(cols) |-> Text(Get(record, cols[i].name))], "__")

\* tableData.find((r) => rowKey(r) === key) || {}
RecordOf(key) ==
    LET i == find([k \in 1..Len(ui.tableData) |->
                      getRowKey(columnsMeta, ui.tableData[k]) = key], 1)
    IN  IF i = 0 THEN EmptyMap ELSE ui.tableData[i]

\* columnsMeta.forEach((col) => { condition[col.name] = record[col.name] }),
\* as the request body carries it: JSON leaves out the undefined values.
ConditionOf(record) ==
    LET names == {columnsMeta[i].name : i \in 1..Len(columnsMeta)} \cap DOMAIN record
    IN  [n \in names |-> record[n]]

\* columnsMeta.every((col) => v === undefined || v === null || v === '')
AllEmpty(record) ==
    \A i \in 1..Len(columnsMeta) : Text(Get(record, columnsMeta[i].name)) = ""

\* getTableData(page, pageSize) up to its await: the request goes out.
DataRequest(tableName, page, pageSize) ==
    [kind |-> "data", table |-> tableName, page |-> page, pageSize |-> pageSize]
getTableData(u, page, pageSize) ==
    IF u.activeTable = "" THEN u
    ELSE [u EXCEPT !.pending = @ \cup {DataRequest(u.activeTable, page, pageSize)}]

\* getTableData after its await: the answer is stored, whatever the page
\* shows by then.
getTableDataResponse(rq) ==
    /\ rq \in ui.pending
    /\ rq.kind = "data"
    /\ LET answer == FetchPage(TableOf(rq.table), rq.page, rq.pageSize)
       IN  ui' = [ui EXCEPT !.tableData = answer.data,
                            !.pagination = [current |-> rq.page, pageSize |-> rq.pageSize,
                                            total |-> answer.total],
                            !.dataOf = rq.table,
                            !.sent = << >>,
                            !.pending = @ \ {rq}]
    /\ UNCHANGED <<table, act, before, req, resp, calls, bulk, log, reading, columnsMeta, channels>>

\* The answer to getTableInfo's request comes.
getTableInfoResponse(rq) ==
    /\ rq \in ui.pending
    /\ rq.kind = "info"
    /\ getTableInfo(rq.table, WithData(Json(200, TRUE, "Success", ""), DescribeTable("sqlite")))

\* The user picks a table: setActiveTable(name) and the effect on it.
setActiveTable(tableName) ==
    /\ tableName # ui.activeTable
    /\ ui' = getTableData([ui EXCEPT !.activeTable = tableName,
                                     !.pagination = [current |-> 1, pageSize |-> 10, total |-> 0],
                                     !.selectedRowKeys = << >>,
                                     !.tableData = << >>,
                                     !.dataOf = "",
                                     !.sent = << >>,
                                     !.pending = @ \cup {InfoRequest(tableName)}],
                          1, 10)
    /\ UNCHANGED <<table, act, before, req, resp, calls, bulk, log, reading, columnsMeta, channels>>

\* pagination.onChange(current, size)
paginationOnChange(current, size) ==
    /\ ui.activeTable # ""
    /\ ui' = getTableData([ui EXCEPT !.pagination.current = current,
                                     !.pagination.pageSize = size],
                          current, size)
    /\ UNCHANGED <<table, act, before, req, resp, calls, bulk, log, reading, columnsMeta, channels>>

\* The refresh button: getTableData() with its default arguments.
Refresh ==
    /\ ui.activeTable # ""
    /\ ui' = getTableData(ui, 1, 10)
    /\ UNCHANGED <<table, act, before, req, resp, calls, bulk, log, reading, columnsMeta, channels>>

\* rowSelection.onChange(keys), keys being the selection with the box of
\* row i ticked or unticked.
Toggle(keys, key) ==
    IF \E k \in 1..Len(keys) : keys[k] = key
    THEN SelectSeq(keys, LAMBDA x : x # key)
    ELSE Append(keys, key)
rowSelectionOnChange(i) ==
    /\ ui.activeTable # ""
    /\ Len(columnsMeta) > 0
    /\ i \in 1..Len(ui.tableData)
    /\ ~AllEmpty(ui.tableData[i])
    /\ LET keys == Toggle(ui.selectedRowKeys, getRowKey(columnsMeta, ui.tableData[i]))
           validKeys == SelectSeq(keys, LAMBDA key : ~AllEmpty(RecordOf(key)))
       IN  ui' = [ui EXCEPT !.selectedRowKeys = validKeys]
    /\ UNCHANGED <<table, act, before, req, resp, calls, bulk, log, reading, columnsMeta, channels>>

\* A bulk request of the page to table t and what the server makes of it;
\* then the page is loaded again.
SendBulk(op, items, page) ==
    /\ ui.activeTable = "t"
    /\ table' = OneByOne(op, table, items)
    /\ ui' = getTableData([ui EXCEPT !.sent = items], page, ui.pagination.pageSize)
    /\ UNCHANGED <<act, before, req, resp, calls, bulk, log, reading, columnsMeta, channels>>

\* handleBulkUpdateSubmit, the field name and the value b being chosen.
handleBulkUpdateSubmit ==
    /\ Len(ui.selectedRowKeys) > 0
    /\ SendBulk("BulkUpdateTableData",
                [k \in 1..Len(ui.selectedRowKeys) |->
                    Item(ConditionOf(RecordOf(ui.selectedRowKeys[k])), M1("name", "b"))],
                ui.pagination.current)

\* handleBulkDelete
handleBulkDelete ==
    /\ Len(ui.selectedRowKeys) > 0
    /\ SendBulk("BulkDeleteTableData",
                [k \in 1..Len(ui.selectedRowKeys) |->
                    Item(ConditionOf(RecordOf(ui.selectedRowKeys[k])), EmptyMap)],
                ui.pagination.current)

\* const left = pagination.total - 1; const newPage = ...
Max(a, b) == IF a > b THEN a ELSE b
newPageNoFloor(pagination) ==
    IF (pagination.current - 1) * pagination.pageSize >= pagination.total - 1
    THEN pagination.current - 1
    ELSE pagination.current
newPage(pagination) ==
    IF (pagination.current - 1) * pagination.pageSize >= pagination.total - 1
    THEN Max(1, pagination.current - 1)
    ELSE pagination.current

\* handleDelete(id, record), record being row i of the grid.
handleDelete(i) ==
    /\ Len(columnsMeta) > 0
    /\ i \in 1..Len(ui.tableData)
    /\ SendBulk("BulkDeleteTableData", <<Item(ui.tableData[i], EmptyMap)>>,
                newPage(ui.pagination))

\* ------------------------------------------------------- the channel table
\* Most loadChannels calls of one visit of the channel table.
MaxLoads == 3
\* What a request ends with: a response with success true or false, the
\* undefined that API.get resolves to, or a rejection.
Outcomes == {"success", "error", "undefined", "thrown"}
\* The state when the table is opened.  channels and channelCount name the
\* request whose items and total they hold (0: none yet); arrived keeps the
\* requests that have ended, in that order.
InitChannels ==
    [channels |-> 0, channelCount |-> 0, loading |-> TRUE, requestCounter |-> 0,
     pending |-> {}, arrived |-> << >>]

\* loadChannels up to its await
loadChannels ==
    /\ channels.requestCounter < MaxLoads
    /\ channels' = [channels EXCEPT !.requestCounter = @ + 1,
                                    !.loading = TRUE,
                                    !.pending = @ \cup {channels.requestCounter + 1}]
    /\ UNCHANGED <<table, act, before, req, resp, calls, bulk, log, reading, columnsMeta, ui>>

\* reqId !== requestCounter.current
IsStaleNever(reqId) == FALSE
IsStale(reqId) == reqId # channels.requestCounter

\* loadChannels after its await, for the request reqId.
loadChannelsResponse(reqId, outcome) ==
    LET returned == outcome = "undefined" \/ IsStale(reqId)
        applied == outcome = "success" /\ ~returned
    IN  /\ reqId \in channels.pending
        /\ channels' =
              [channels EXCEPT
                 !.pending = @ \ {reqId},
                 !.arrived = Append(@, [id |-> reqId, latest |-> channels.requestCounter,
                                        outcome |-> outcome, applied |-> applied]),
                 !.channels = IF applied THEN reqId ELSE @,
                 !.channelCount = IF applied THEN reqId ELSE @,
                 !.loading = IF outcome = "thrown" \/ returned THEN @ ELSE FALSE]
        /\ UNCHANGED <<table, act, before, req, resp, calls, bulk, log, reading,
                       columnsMeta, ui>>

\* ------------------------------------------------------- the specification
Init ==
    /\ table = << >>
    /\ act = "closed"
    /\ before = << >>
    /\ req = BaseReq
    /\ resp = BaseResp
    /\ calls = << >>
    /\ bulk = IdleBulk
    /\ reading = IdleRead
    /\ channels = InitChannels
    /\ log = << >>
    /\ columnsMeta = << >>
    /\ ui = InitUi

\* The response has been sent and the request is over: the handlers keep
\* nothing of it (every request is served statelessly).
Close ==
    /\ resp.status # 0
    /\ act' = "closed"
    /\ before' = << >>
    /\ req' = BaseReq
    /\ resp' = BaseResp
    /\ calls' = << >>
    /\ log' = << >>
    /\ UNCHANGED <<table, bulk, reading, uiVars>>

\* No request is being served.
Quiet == bulk.pc = "idle" /\ resp.status = 0
\* A batch is running and no other request is being served beside it.
Beside == bulk.pc = "run" /\ resp.status = 0

Next ==
    \/ Quiet /\ \E db \in DbTypes, fail \in BOOLEAN : GetTables(db, fail)
    \/ Quiet /\ \E name \in Names, db \in DbTypes, fail \in BOOLEAN :
          GetTableInfo(name, db, fail)
    \/ Quiet /\ \E name \in Names, p \in QueryVals, s \in QueryVals, fail \in ReadFailures :
          GetTableData(name, p, s, fail)
    \/ Quiet /\ \E name \in Names, data \in Maps :
          Len(table) < MaxRows /\ CreateTableData(name, TRUE, data)
    \/ Quiet /\ CreateTableData("t", FALSE, EmptyMap)
    \/ Quiet /\ \E name \in Names, cond \in Maps, upd \in Maps :
          UpdateTableData(name, TRUE, cond, upd)
    \/ Quiet /\ UpdateTableData("t", FALSE, EmptyMap, EmptyMap)
    \/ Quiet /\ \E name \in Names, data \in Maps :
          DeleteTableData(name, TRUE, data)
    \/ Quiet /\ DeleteTableData("t", FALSE, EmptyMap)
    \/ Quiet /\ \E name \in Names, items \in SeqsUpTo(BulkUpdateItems, MaxItems) :
          BulkUpdateTableData(name, TRUE, items)
    \/ Quiet /\ BulkUpdateTableData("t", FALSE, << >>)
    \/ Quiet /\ \E name \in Names, conds \in SeqsUpTo(BulkDeleteConds, MaxItems) :
          BulkDeleteTableData(name, TRUE, conds)
    \/ Quiet /\ BulkDeleteTableData("t", FALSE, << >>)
    \/ resp.status = 0 /\ BulkUpdateItem
    \/ resp.status = 0 /\ BulkDeleteItem
    \/ resp.status = 0 /\ BulkResponse
    \/ Beside /\ GetTableData("t", "absent", "absent", "")
    \/ Beside /\ \E cond \in ConcurrentConds : DeleteTableData("t", TRUE, cond)
    \/ Close

Spec == Init /\ [][Next]_vars

\* The paginated reads alone, over a table of any length up to MaxPageRows
\* that has a temporal column.
PageInit ==
    /\ table \in {PageTable(n) : n \in 0..MaxPageRows}
    /\ act = "closed"
    /\ before = << >>
    /\ req = BaseReq
    /\ resp = BaseResp
    /\ calls = << >>
    /\ bulk = IdleBulk
    /\ reading = IdleRead
    /\ channels = InitChannels
    /\ log = << >>
    /\ columnsMeta = << >>
    /\ ui = InitUi

PageNext ==
    \/ Quiet /\ \E name \in Names, p \in PageQueryVals, s \in PageQueryVals, fail \in ReadFailures :
          GetTableData(name, p, s, fail)
    \/ Close

PageSpec == PageInit /\ [][PageNext]_vars

\* One client's session on the table, empty at first: its requests are
\* served one after the other with no other request in between, and log
\* holds every exchange of it.
SessionNext ==
    \/ Len(log) < MaxRequests /\ GetTableData("t", "1", "10", "")
    \/ \E data \in SessionRows :
          Len(log) < MaxRequests /\ CreateTableData("t", TRUE, data)
    \/ \E item \in SessionUpdates :
          Len(log) < MaxRequests /\ UpdateTableData("t", TRUE, item.condition, item.update)
    \/ \E cond \in SessionConds :
          Len(log) < MaxRequests /\ DeleteTableData("t", TRUE, cond)

SessionSpec == Init /\ [][SessionNext]_vars

\* Batches that run alone: no other request is served while one is running.
BatchNext ==
    \/ Quiet /\ \E data \in BatchRows :
          Len(table) < MaxRows /\ CreateTableData("t", TRUE, data)
    \/ Quiet /\ \E items \in SeqsUpTo(BatchUpdates, MaxItems) :
          BulkUpdateTableData("t", TRUE, items)
    \/ Quiet /\ \E conds \in SeqsUpTo(BulkDeleteConds, MaxItems) :
          BulkDeleteTableData("t", TRUE, conds)
    \/ resp.status = 0 /\ BulkUpdateItem
    \/ resp.status = 0 /\ BulkDeleteItem
    \/ resp.status = 0 /\ BulkResponse
    \/ Close

BatchSpec == Init /\ [][BatchNext]_vars

\* The page loading the description of a table, once per visit.
PageLoadNext ==
    \/ act = "closed" /\ \E answer \in InfoAnswers : getTableInfo("t", answer)
    \/ Unmount

PageLoadSpec == Init /\ [][PageLoadNext]_vars

\* The page on table t, whose rows are there already: the user picks the
\* table, ticks rows, turns pages, reloads, and deletes and updates rows.
UiInit ==
    /\ table = UiRows
    /\ act = "closed"
    /\ before = << >>
    /\ req = BaseReq
    /\ resp = BaseResp
    /\ calls = << >>
    /\ bulk = IdleBulk
    /\ reading = IdleRead
    /\ channels = InitChannels
    /\ log = << >>
    /\ columnsMeta = << >>
    /\ ui = InitUi

UiNext ==
    \/ setActiveTable("t")
    \/ \E rq \in ui.pending : getTableInfoResponse(rq)
    \/ \E rq \in ui.pending : getTableDataResponse(rq)
    \/ \E current \in {1, 2} : paginationOnChange(current, 10)
    \/ Refresh
    \/ \E i \in 1..Len(ui.tableData) : rowSelectionOnChange(i)
    \/ handleBulkUpdateSubmit
    \/ handleBulkDelete
    \/ \E i \in 1..Len(ui.tableData) : handleDelete(i)

UiSpec == UiInit /\ [][UiNext]_vars

\* The page showing a page of table t, which holds up to MaxPageRows rows:
\* the user deletes single rows, one when the reload after the last is done.
PagerTable(n) == [i \in 1..n |-> M3(ToString(i), "a", "e")]
PagerInit ==
    /\ table \in {PagerTable(n) : n \in 1..MaxPageRows}
    /\ act = "closed"
    /\ before = << >>
    /\ req = BaseReq
    /\ resp = BaseResp
    /\ calls = << >>
    /\ bulk = IdleBulk
    /\ reading = IdleRead
    /\ channels = InitChannels
    /\ log = << >>
    /\ columnsMeta = [i \in 1..3 |-> Normalize(DescribeTable("sqlite")[i])]
    /\ \E current \in {1, 2} :
          /\ (current - 1) * DefaultPageSize < Len(table)
          /\ ui = [InitUi EXCEPT
                      !.activeTable = "t",
                      !.tableData = FetchPage(table, current, DefaultPageSize).data,
                      !.pagination = [current |-> current, pageSize |-> DefaultPageSize,
                                      total |-> Len(table)],
                      !.dataOf = "t"]

PagerNext ==
    \/ ui.pending = {} /\ \E i \in 1..Len(ui.tableData) : handleDelete(i)
    \/ \E rq \in ui.pending : getTableDataResponse(rq)

PagerSpec == PagerInit /\ [][PagerNext]_vars

\* The page as the user goes from one table to the other and reloads.
SwitchNext ==
    \/ \E tableName \in {"t", "u"} : setActiveTable(tableName)
    \/ \E rq \in ui.pending : getTableInfoResponse(rq)
    \/ \E rq \in ui.pending : getTableDataResponse(rq)
    \/ Refresh

SwitchSpec == UiInit /\ [][SwitchNext]_vars

\* Paginated reads in their two statements, with inserts and deletes of
\* other requests served at any time, between the two as well.
RaceNext ==
    \/ resp.status = 0 /\ \E data \in BatchRows :
          Len(table) < MaxRows /\ CreateTableData("t", TRUE, data)
    \/ resp.status = 0 /\ \E cond \in {M1("id", "1"), M1("id", "2")} :
          DeleteTableData("t", TRUE, cond)
    \/ resp.status = 0 /\ \E p \in {"1", "2"}, s \in {"1", "2"}, fail \in {"", "count"} :
          ReadCount("t", p, s, fail)
    \/ resp.status = 0 /\ \E fail \in {"", "find"} : ReadFind(fail)
    \/ Close

RaceSpec == Init /\ [][RaceNext]_vars

\* The channel table: loads that overlap, and their answers in any order.
ChannelsNext ==
    \/ loadChannels
    \/ \E reqId \in channels.pending, outcome \in Outcomes :
          loadChannelsResponse(reqId, outcome)

ChannelsSpec == Init /\ [][ChannelsNext]_vars

\* ---------------------------------------------------------------- claims
Handlers ==
    {"GetTableInfo", "GetTableData", "CreateTableData", "UpdateTableData",
     "DeleteTableData", "BulkUpdateTableData", "BulkDeleteTableData"}
BulkHandlers == {"BulkUpdateTableData", "BulkDeleteTableData"}

\* The response is 400 with success:false, no ORM call was made and the
\* table is as the handler found it.
Rejected ==
    /\ resp.status = 400
    /\ ~resp.success
    /\ calls = << >>
    /\ table = before

\* A row equals a condition on every condition column (SQL equality).
Equals(row, cond) == \A k \in DOMAIN cond : SqlEq(row[k], cond[k])
Hits(tbl, cond) == {i \in 1..Len(tbl) : Equals(tbl[i], cond)}

\* A bulk request that passed the handler's validation has been answered.
BulkAnswered ==
    /\ act \in BulkHandlers
    /\ req.name # ""
    /\ req.bodyOk
    /\ Len(req.items) > 0

\* C1: an Update whose condition map or update map is empty is answered 400
\* with success:false, makes no ORM call and leaves the table as it was.
C1_UpdateRejectsEmptyMaps ==
    (act = "UpdateTableData" /\ (DOMAIN req.condition = {} \/ DOMAIN req.update = {}))
        => Rejected

C1_Witness ==
    /\ act = "UpdateTableData"
    /\ req.name = "t"
    /\ req.bodyOk
    /\ DOMAIN req.condition = {}
    /\ DOMAIN req.update = {"name"}
    /\ Len(table) > 0
    /\ Rejected

\* C2: a single Delete whose condition map is empty is answered 400 with
\* success:false, makes no ORM call and removes no row.
C2_DeleteRejectsEmptyCondition ==
    (act = "DeleteTableData" /\ req.name = "t" /\ req.bodyOk /\ DOMAIN req.data = {})
        => Rejected

\* C3: no statement that BulkUpdate or BulkDelete hands to the backend has an
\* empty predicate, and BulkUpdate hands over none with an empty update map.
C3_NoBulkStatementWithoutPredicate ==
    \A i \in 1..Len(bulk.calls) :
        /\ bulk.calls[i].where # {}
        /\ bulk.calls[i].stmt = "UPDATE" => DOMAIN bulk.calls[i].set # {}

\* C4: a request without a table name, a BulkUpdate without items and a
\* BulkDelete without conditions are answered 400 with success:false, with
\* no ORM call and the table as it was.
C4_MissingNameOrItemsRejected ==
    /\ (act \in Handlers /\ req.name = "") => Rejected
    /\ (act \in BulkHandlers /\ Len(req.items) = 0) => Rejected

C4_Witness ==
    /\ act = "BulkDeleteTableData"
    /\ req.name = "t"
    /\ req.bodyOk
    /\ Len(req.items) = 0
    /\ Len(table) > 0
    /\ Rejected

\* C5: a successful Update changes exactly the rows that equal the condition
\* on every condition column: such a row gets the update's values on the
\* update's columns, every other row and column is as before, and rows is
\* the number of those rows.
C5_UpdateChangesExactlyMatches ==
    (act = "UpdateTableData" /\ resp.status = 200)
        => /\ DOMAIN req.condition # {}
           /\ DOMAIN req.update # {}
           /\ DOMAIN req.condition \cup DOMAIN req.update \subseteq Columns
           /\ Len(table) = Len(before)
           /\ \A i \in 1..Len(before) : \A c \in Columns :
                 table[i][c] = IF i \in Hits(before, req.condition) /\ c \in DOMAIN req.update
                               THEN req.update[c]
                               ELSE before[i][c]
           /\ "rows" \in resp.fields
           /\ resp.rows = Cardinality(Hits(before, req.condition))

C5_Witness ==
    /\ act = "UpdateTableData"
    /\ resp.status = 200
    /\ Cardinality(DOMAIN req.condition) = 2
    /\ resp.rows = 2
    /\ table # before

\* C6: a successful Delete with a non-empty condition removes exactly the
\* rows that equal the condition on every condition column, keeps the other
\* rows as they were and in their order, and rows is the number removed.
C6_DeleteRemovesExactlyMatches ==
    (act = "DeleteTableData" /\ resp.status = 200 /\ DOMAIN req.data # {})
        => /\ DOMAIN req.data \subseteq Columns
           /\ table = SelectSeq(before, LAMBDA r : ~Equals(r, req.data))
           /\ "rows" \in resp.fields
           /\ resp.rows = Cardinality(Hits(before, req.data))
           /\ resp.rows = Len(before) - Len(table)
           /\ resp.success

C6_Witness ==
    /\ act = "DeleteTableData"
    /\ resp.status = 200
    /\ Cardinality(DOMAIN req.data) = 2
    /\ resp.rows = 2

\* C7: a bulk request that passed validation is answered 200 with
\* success:true; every item was handed to the backend, each item whose
\* statement failed is ok:false with a non-empty error and every other item
\* is ok:true with an empty error.
C7_BulkIsolatesFailures ==
    BulkAnswered
        => /\ resp.status = 200
           /\ resp.success
           /\ Len(calls) = Len(req.items)
           /\ Len(resp.results) = Len(req.items)
           /\ \A i \in 1..Len(req.items) :
                 IF calls[i].err # ""
                 THEN ~resp.results[i].ok /\ resp.results[i].error # ""
                 ELSE resp.results[i].ok /\ resp.results[i].error = ""

C7_Witness ==
    /\ BulkAnswered
    /\ Len(resp.results) = 2
    /\ ~resp.results[1].ok
    /\ resp.results[2].ok
    /\ calls[2].err = ""
    /\ table # before

\* C8: the results of a bulk request that passed validation are as many as
\* its items, and results[i] is the result of item i: it echoes item i's id
\* and carries the error of the statement built from item i's condition.
C8_BulkResultsInInputOrder ==
    BulkAnswered
        => /\ Len(resp.results) = Len(req.items)
           /\ Len(calls) = Len(req.items)
           /\ \A i \in 1..Len(req.items) :
                 LET cond == req.items[i].condition
                     res == resp.results[i]
                 IN  /\ ("id" \in res.fields) = ("id" \in DOMAIN cond)
                     /\ "id" \in DOMAIN cond => res.id = cond["id"]
                     /\ WhereCols(calls[i].where) = DOMAIN cond
                     /\ \A p \in calls[i].where : p[2] = cond[p[1]]
                     /\ calls[i].set = req.items[i].update
                     /\ res.error = calls[i].err

C8_Witness ==
    /\ BulkAnswered
    /\ Len(resp.results) = 2
    /\ resp.results[1].ok
    /\ ~resp.results[2].ok
    /\ "id" \notin resp.results[1].fields
    /\ "id" \in resp.results[2].fields

\* The bulk item handled last, and a statement of it the backend can run:
\* a non-empty condition, and existing columns only.
LastItem == bulk.items[Len(bulk.results)]
LastResult == bulk.results[Len(bulk.results)]
ItemHandled == bulk.pc = "run" /\ Len(bulk.results) > 0
Runnable(item) ==
    /\ DOMAIN item.condition # {}
    /\ DOMAIN item.condition \subseteq Columns
    /\ DOMAIN item.update \subseteq Columns

\* C9: a bulk item whose condition matches no row is ok:true with an empty
\* error, and its statement changes no row.
C9_NoMatchIsNotAFailure ==
    (ItemHandled /\ Runnable(LastItem) /\ Hits(bulk.before, LastItem.condition) = {})
        => /\ LastResult.ok
           /\ LastResult.error = ""
           /\ bulk.after = bulk.before

C9_Witness ==
    /\ ItemHandled
    /\ Runnable(LastItem)
    /\ Len(bulk.before) > 0
    /\ Hits(bulk.before, LastItem.condition) = {}
    /\ LastResult.ok

\* C10: nothing spans the items of a batch: a failing item leaves the table
\* as the items before it and the requests beside it left it.
C10_FailingItemKeepsEarlierEffects ==
    (ItemHandled /\ ~LastResult.ok) => bulk.after = bulk.before

\* A GetTableData answered while the batch is between two items sees the
\* rows that the first items changed.
C10_Witness ==
    /\ bulk.pc = "run"
    /\ 1 < bulk.i
    /\ bulk.i <= Len(bulk.items)
    /\ bulk.after # bulk.start
    /\ act = "GetTableData"
    /\ resp.status = 200
    /\ resp.data = table
    /\ table = bulk.after

\* ------------------------------------------------- claims: paginated reads
\* A read that was answered with rows, and the numbers its page and
\* page_size parameters stand for (0 for an absent or non-numeric one).
Fetched == act = "GetTableData" /\ resp.status = 200
PageParam == Atoi(req.page)
SizeParam == Atoi(req.page_size)
Min(a, b) == IF a < b THEN a ELSE b
\* The rows of tbl from offset on, limit of them at most.
Slice(tbl, offset, limit) ==
    [i \in 1..Min(limit, IF Len(tbl) > offset THEN Len(tbl) - offset ELSE 0) |-> tbl[offset + i]]
RowIds(rows) == [i \in 1..Len(rows) |-> rows[i].id]
\* What the claims call FetchPage(page, pageSize) on the table contents tbl.
IsPage(tbl, page, pageSize) ==
    /\ "total" \in resp.fields
    /\ "data" \in resp.fields
    /\ resp.total = Len(tbl)
    /\ RowIds(resp.data) = RowIds(Slice(tbl, (page - 1) * pageSize, pageSize))

\* C11 as stated: a read with page <= 0 or pageSize <= 0 (absent and
\* non-numeric parameters included) returns the total and the rows of page 1
\* with pageSize 10.
C11_NonPositiveIsFirstPageOfTen ==
    (Fetched /\ (PageParam <= 0 \/ SizeParam <= 0)) => IsPage(before, 1, 10)

\* C11: each parameter has its own default: a read with page <= 0 or
\* pageSize <= 0 returns the total and the rows of the read in which every
\* parameter that is <= 0, absent or non-numeric is replaced by its default
\* (1 for page, 10 for pageSize) and the other parameter is as given.
C11_EachParameterDefaultsAlone ==
    (Fetched /\ (PageParam <= 0 \/ SizeParam <= 0))
        => IsPage(before,
                  IF PageParam <= 0 THEN 1 ELSE PageParam,
                  IF SizeParam <= 0 THEN 10 ELSE SizeParam)

C11_Witness ==
    /\ Fetched
    /\ req.page = "abc"
    /\ req.page_size = "0"
    /\ Len(before) = 12
    /\ Len(resp.data) = 10
    /\ resp.total = 12

\* C12: a successful read with page >= 1 and pageSize >= 1 returns the
\* number of all rows as total and the rows from offset (page-1)*pageSize
\* on, pageSize of them at most; past the end the row list is empty and the
\* total is still the full one.
C12_PageIsSliceOfAllRows ==
    (Fetched /\ PageParam >= 1 /\ SizeParam >= 1)
        => /\ IsPage(before, PageParam, SizeParam)
           /\ Len(resp.data) <= SizeParam
           /\ (PageParam - 1) * SizeParam >= Len(before) => resp.data = << >>
           /\ table = before

C12_Witness ==
    /\ Fetched
    /\ req.page = "3"
    /\ req.page_size = "10"
    /\ Len(before) = 12
    /\ resp.data = << >>
    /\ resp.total = 12

\* C15: a read whose count query or row query fails is answered 500 with
\* success:false and with neither data nor total.
C15_FailedReadHasNoPartialResult ==
    (act = "GetTableData" /\ \E i \in 1..Len(calls) : calls[i].err # "")
        => /\ resp.status = 500
           /\ ~resp.success
           /\ resp.fields = {"success", "message"}
           /\ resp.data = << >>
           /\ resp.total = 0

\* The count succeeded on a table with rows and the row query failed.
C15_Witness ==
    /\ act = "GetTableData"
    /\ Len(calls) = 2
    /\ calls[1].err = ""
    /\ calls[2].err # ""
    /\ Len(table) > 0
    /\ resp.status = 500

\* The RFC 3339 text of an instant in UTC.
UtcText(unix) ==
    "1970-01-" \o TwoDigits((unix \div 24) + 1) \o "T" \o TwoDigits(unix % 24) \o ":00:00Z"
RowWithId(tbl, id) == tbl[CHOOSE i \in 1..Len(tbl) : tbl[i].id = id]

\* C16: in every returned row a temporal value is the UTC timestamp text
\* of its instant, a nil temporal value is null, and every other value is
\* the backend's, under the same column names.
C16_TemporalValuesAsUtcText ==
    Fetched
        => \A i \in 1..Len(resp.data) :
              LET out == resp.data[i]
                  raw == RowWithId(before, out.id)
              IN  /\ DOMAIN out = DOMAIN raw
                  /\ \A k \in DOMAIN raw :
                        IF k \notin TimeColumns THEN out[k] = raw[k]
                        ELSE IF raw[k].type = "nil" THEN out[k] = raw[k]
                        ELSE IF raw[k].nil THEN out[k] = NULL
                        ELSE out[k] = UtcText(raw[k].unix)

C16_Witness ==
    /\ Fetched
    /\ req.page = "1"
    /\ Len(resp.data) >= 2
    /\ before[1].created_at.type = "time.Time"
    /\ before[1].created_at.offset = 8
    /\ resp.data[1].created_at = "1970-01-01T23:00:00Z"
    /\ before[2].created_at.type = "*time.Time"
    /\ before[2].created_at.nil
    /\ resp.data[2].created_at = NULL

\* ------------------------------------------------------- claims: sessions
IsFetch(e) ==
    /\ e.req.op = "GetTableData"
    /\ e.req.name = "t"
    /\ e.req.page = "1"
    /\ e.req.page_size = "10"
    /\ e.resp.status = 200
IsInsert(e) == e.req.op = "CreateTableData" /\ e.resp.status = 200

\* C13: FetchPage(t,1,10), one successful Insert and FetchPage(t,1,10) again
\* with no request in between: the second total is the first plus 1.
C13_InsertRaisesTotalByOne ==
    \A i \in 1..(Len(log) - 2) :
        (IsFetch(log[i]) /\ IsInsert(log[i + 1]) /\ IsFetch(log[i + 2]))
            => log[i + 2].resp.total = log[i].resp.total + 1

\* The insert is the second row of the table, and its name is null.
C13_Witness ==
    /\ Len(log) = 4
    /\ IsInsert(log[1])
    /\ IsFetch(log[2])
    /\ log[2].resp.total = 1
    /\ IsInsert(log[3])
    /\ log[3].req.data["name"] = NULL
    /\ IsFetch(log[4])
    /\ log[4].resp.total = 2

\* The users scenario: the row, the update and the full row as condition.
UserRow == M3("1", "a", NULL)
UserRowUpdated == M3("1", "b", NULL)
ScenarioUntilDelete ==
    /\ Len(log) >= 4
    /\ log[1].before = << >>
    /\ IsInsert(log[1])
    /\ log[1].req.data = UserRow
    /\ IsFetch(log[2])
    /\ log[3].req.op = "UpdateTableData"
    /\ log[3].req.condition = M1("id", "1")
    /\ log[3].req.update = M1("name", "b")
    /\ log[4].req.op = "DeleteTableData"
    /\ log[4].req.data = UserRowUpdated

\* C14: in the users scenario the read finds the inserted row with total
\* 1, the update answers rows 1, the delete by the full row (its null email
\* included) answers rows 1, and a read after it finds total 0.
C14_UsersScenario ==
    ScenarioUntilDelete
        => /\ log[2].resp.total = 1
           /\ log[2].resp.data = <<UserRow>>
           /\ log[3].resp.status = 200
           /\ log[3].resp.rows = 1
           /\ log[4].resp.status = 200
           /\ log[4].resp.rows = 1
           /\ (Len(log) >= 5 /\ IsFetch(log[5])) => log[5].resp.total = 0

\* --------------------------------------------- claims: responses, catalog
Answered == resp.status # 0
NonBulkHandlers ==
    {"GetTables", "GetTableInfo", "GetTableData", "CreateTableData", "UpdateTableData",
     "DeleteTableData"}
\* The inputs that are InvalidArgument: a missing table name, a body that
\* does not parse, an empty condition or update map, no bulk items.
Malformed ==
    \/ act # "GetTables" /\ req.name = ""
    \/ ~req.bodyOk
    \/ act = "UpdateTableData" /\ (DOMAIN req.condition = {} \/ DOMAIN req.update = {})
    \/ act = "DeleteTableData" /\ DOMAIN req.data = {}
    \/ act \in BulkHandlers /\ Len(req.items) = 0
BackendFailed == \E i \in 1..Len(calls) : calls[i].err # ""
Unrecognized == act \in {"GetTables", "GetTableInfo"} /\ req.db = "none"

\* Every response carries success and message, and success:true comes with
\* HTTP 200 only.
EnvelopeHolds ==
    Answered
        => /\ {"success", "message"} \subseteq resp.fields
           /\ resp.status \in {200, 400, 500}
           /\ resp.success => resp.status = 200
\* A failure of the backend in a non-bulk operation is answered 500 with
\* success:false.
BackendFailureIs500 ==
    (Answered /\ act \in NonBulkHandlers /\ ~Malformed /\ (BackendFailed \/ Unrecognized))
        => resp.status = 500 /\ ~resp.success
MalformedIs400 ==
    (Answered /\ Malformed) => resp.status = 400 /\ ~resp.success

\* C17: every response carries success and message, success is true only
\* with HTTP 200, malformed input is answered 400 and a backend failure of a
\* non-bulk operation 500, both with success:false.
C17_ResponseEnvelope ==
    /\ EnvelopeHolds
    /\ MalformedIs400
    /\ BackendFailureIs500

\* The catalog query of each backend kind.
CatalogQuery(handler, db) ==
    IF handler = "GetTables"
    THEN (CASE db = "sqlite" -> "SELECT name, type FROM sqlite_master"
            [] db = "mysql" -> "SHOW TABLES"
            [] db = "postgres" -> "SELECT tablename FROM pg_tables")
    ELSE (CASE db = "sqlite" -> "PRAGMA table_info"
            [] db = "mysql" -> "DESCRIBE"
            [] db = "postgres" ->
                 "SELECT column_name, data_type, is_nullable, column_default FROM information_schema.columns")
CatalogRequest ==
    \/ act = "GetTables"
    \/ act = "GetTableInfo" /\ req.name # ""

\* C18: with a backend that is none of SQLite, MySQL and PostgreSQL,
\* ListTables and DescribeTable answer 500 with success:false and issue no
\* catalog query; with one of the three, the one query issued is the
\* catalog query of that backend.
C18_CatalogQueryOfTheBackend ==
    CatalogRequest
        => IF req.db \in {"sqlite", "mysql", "postgres"}
           THEN /\ Len(calls) = 1
                /\ calls[1].stmt = CatalogQuery(act, req.db)
           ELSE /\ resp.status = 500
                /\ ~resp.success
                /\ calls = << >>

C18_Witness ==
    /\ act = "GetTableInfo"
    /\ req.name = "t"
    /\ req.db = "none"
    /\ resp.status = 500
    /\ resp.message = "Unsupported database type"
    /\ calls = << >>

\* ----------------------------------------------- claims: column metadata
\* The page has loaded a description: column i of it and its metadata.
Loaded == act = "getTableInfo" /\ resp.success
IsSqliteShape(c) == DOMAIN c = {"cid", "name", "type", "notnull", "dflt_value", "pk"}
IsMysqlShape(c) == DOMAIN c = {"Field", "Type", "Null", "Key", "Default", "Extra"}
IsPostgresShape(c) ==
    DOMAIN c = {"column_name", "data_type", "is_nullable", "column_default"}
MysqlMeta(c, m) ==
    /\ m.name = c.Field
    /\ m.type = c.Type
    /\ m.pk = (c.Key = "PRI")
    /\ m.nullable = (c.Null = "YES")
SqliteMeta(c, m) ==
    /\ m.name = c.name
    /\ m.pk = (c.pk # 0)
    /\ m.nullable = (c.notnull = 0)

\* C19 as stated: for every SQLite and every MySQL description the name and
\* the type are the reported ones, pk is true iff the backend marks the
\* column primary and nullable iff it marks it nullable.
C19_NormalizeSqliteAndMysql ==
    Loaded
        => /\ Len(columnsMeta) = Len(resp.data)
           /\ \A i \in 1..Len(resp.data) :
                 LET c == resp.data[i]
                     m == columnsMeta[i]
                 IN  /\ IsSqliteShape(c) => SqliteMeta(c, m) /\ m.type = c.type
                     /\ IsMysqlShape(c) => MysqlMeta(c, m)

\* C19: the same, but the type of a SQLite description is the reported one
\* only when it is not empty: an empty type (a column declared without a
\* type) is normalized to no type at all (undefined).
C19_NormalizeKeepsNonEmptyType ==
    Loaded
        => /\ Len(columnsMeta) = Len(resp.data)
           /\ \A i \in 1..Len(resp.data) :
                 LET c == resp.data[i]
                     m == columnsMeta[i]
                 IN  /\ IsSqliteShape(c)
                        => /\ SqliteMeta(c, m)
                           /\ m.type = IF c.type = "" THEN UNDEFINED ELSE c.type
                     /\ IsMysqlShape(c) => MysqlMeta(c, m)

\* A SQLite column that is second in the primary key, and a MySQL one that
\* is a primary key.
C19_Witness ==
    /\ Loaded
    /\ Len(resp.data) = 2
    /\ IsSqliteShape(resp.data[1])
    /\ resp.data[1].pk = 2
    /\ resp.data[1].notnull = 1
    /\ columnsMeta[1].pk
    /\ ~columnsMeta[1].nullable
    /\ IsMysqlShape(resp.data[2])
    /\ resp.data[2].Key = "PRI"
    /\ columnsMeta[2].pk
    /\ columnsMeta[2].name = "id"

\* C20: for every PostgreSQL description the metadata has the column_name
\* as name, the data_type as type, nullable iff is_nullable is "YES", the
\* column_default as default, and pk false.
C20_NormalizePostgres ==
    Loaded
        => \A i \in 1..Len(resp.data) :
              LET c == resp.data[i]
                  m == columnsMeta[i]
              IN  IsPostgresShape(c)
                     => /\ m.name = c.column_name
                        /\ m.type = c.data_type
                        /\ m.nullable = (c.is_nullable = "YES")
                        /\ m.default = c.column_default
                        /\ m.pk = FALSE

\* C23: every result record of a bulk request carries id exactly when its
\* item's condition has the key id, and then that value; a record of a bulk
\* delete without id carries the item's whole condition map as condition,
\* so that it carries exactly one of the two.
C23_ResultCarriesIdOrCondition ==
    bulk.pc = "run"
        => \A k \in 1..Len(bulk.results) :
              LET cond == bulk.items[k].condition
                  res == bulk.results[k]
              IN  /\ ("id" \in res.fields) = ("id" \in DOMAIN cond)
                  /\ "id" \in res.fields => res.id = cond["id"]
                  /\ bulk.op = "BulkDeleteTableData"
                        => /\ ("condition" \in res.fields) = ("id" \notin res.fields)
                           /\ "condition" \in res.fields => res.condition = cond

C23_Witness ==
    /\ bulk.pc = "run"
    /\ bulk.op = "BulkDeleteTableData"
    /\ Len(bulk.results) = 2
    /\ "id" \notin bulk.results[1].fields
    /\ bulk.results[1].condition = M1("nocol", "x")
    /\ "id" \in bulk.results[2].fields
    /\ "condition" \notin bulk.results[2].fields
    /\ bulk.results[2].id = "1"

\* C24: a batch that runs with no other request beside it leaves, after
\* each of its items and at its response, the table that the single
\* updates / deletes of its items leave when they are served in input
\* order, each on the table the one before it left.
C24_BatchIsItemsOneByOne ==
    /\ bulk.pc = "run"
          => table = OneByOne(bulk.op, bulk.start, SubSeq(bulk.items, 1, Len(bulk.results)))
    /\ BulkAnswered => table = OneByOne(act, before, req.items)

\* The second item matched the id that the first one wrote.
C24_Witness ==
    /\ BulkAnswered
    /\ act = "BulkUpdateTableData"
    /\ req.items = <<Item(M1("name", "a"), M1("id", "2")), Item(M1("id", "2"), M1("name", NULL))>>
    /\ Len(before) = 1
    /\ before[1]["id"] = "1"
    /\ table[1]["id"] = "2"
    /\ table[1]["name"] = NULL

\* The primary key for the page as it is stated: the name of the first
\* column flagged pk, else id when a column is named id, else none.
StatedPrimaryKey(cols) ==
    IF \E i \in 1..Len(cols) : cols[i].pk
    THEN cols[CHOOSE i \in 1..Len(cols) :
                 cols[i].pk /\ \A j \in 1..(i - 1) : ~cols[j].pk].name
    ELSE IF \E i \in 1..Len(cols) : cols[i].name = "id" THEN "id"
    ELSE UNDEFINED

\* C21: for every list of column metadata that the page has loaded, the
\* primary key chosen for the page, in both editions of the page, is the
\* name of the first column flagged pk, else id when a column is named id,
\* else none: never another column such as the first one.
C21_PrimaryKeyOfThePage ==
    Loaded
        => /\ ui.updatePk = StatedPrimaryKey(columnsMeta)
           /\ indexGetRowKey(columnsMeta) = StatedPrimaryKey(columnsMeta)

\* The rows of the grid, and the values of a row in the columns of the
\* metadata.
GridRows == 1..Len(ui.tableData)
ColumnNames == {columnsMeta[i].name : i \in 1..Len(columnsMeta)}
TupleOf(row) == [n \in ColumnNames |-> Get(row, n)]
KeyOfRow(i) == getRowKey(columnsMeta, ui.tableData[i])

\* C22: two rows of the grid get the same RowKey only if they have the same
\* value in every column of the metadata, and the key of a row resolves to
\* that row's values.
C22_RowKeyIdentifiesTheRow ==
    Len(columnsMeta) > 0
        => \A i \in GridRows :
              /\ \A j \in GridRows :
                    KeyOfRow(i) = KeyOfRow(j)
                        => TupleOf(ui.tableData[i]) = TupleOf(ui.tableData[j])
              /\ TupleOf(RecordOf(KeyOfRow(i))) = TupleOf(ui.tableData[i])

\* C25: every condition of a bulk request that the page has sent is the
\* full column tuple of a row of the grid it was sent from; none is empty.
C25_SentConditionsAreGridRows ==
    \A k \in 1..Len(ui.sent) :
        /\ DOMAIN ui.sent[k].condition # {}
        /\ \E i \in GridRows : ui.sent[k].condition = TupleOf(ui.tableData[i])

\* C27: the rows of the grid and the total were answered for the table
\* that is active.
C27_RowsOfTheActiveTable ==
    ui.dataOf # "" => ui.dataOf = ui.activeTable

\* A single delete has been sent and the reload that follows it is in flight.
Reloading == ui.sent # << >> /\ ui.pending # {}
Current == ui.pagination.current
NoRowLeft == (Current - 1) * ui.pagination.pageSize >= ui.pagination.total - 1

Offset == (PageParam - 1) * SizeParam
Room == IF resp.total - Offset > 0 THEN resp.total - Offset ELSE 0

\* C26 as stated: a successful read returns at most pageSize rows and at
\* most max(0, total - (page-1)*pageSize) rows, whatever other requests do
\* to the table between its count and its row query.
C26_RowsWithinTotal ==
    Fetched
        => /\ Len(resp.data) <= SizeParam
           /\ Len(resp.data) <= Room

\* C26: a successful read returns at most pageSize rows, whatever other
\* requests do to the table meanwhile; it returns at most
\* max(0, total - (page-1)*pageSize) rows when the table at its row query is
\* the table at its count.
C26_RowsWithinTotalOfSameTable ==
    Fetched
        => /\ Len(resp.data) <= SizeParam
           /\ before = table => Len(resp.data) <= Room

\* A row was inserted between the count and the row query: the read
\* returns it, within the page size and beyond the total.
C26_Witness ==
    /\ Fetched
    /\ before # table
    /\ resp.total = 0
    /\ Len(resp.data) = 1
    /\ SizeParam = 2

\* C29: a response is applied to the list and the count only when its
\* request is the one issued last at that moment, and the list and the
\* count are those of the response applied last.
C29_OnlyTheLatestIsApplied ==
    /\ \A k \in 1..Len(channels.arrived) :
          channels.arrived[k].applied
              => channels.arrived[k].id = channels.arrived[k].latest
    /\ \A k \in 1..Len(channels.arrived) :
          (channels.arrived[k].applied
             /\ \A j \in (k + 1)..Len(channels.arrived) : ~channels.arrived[j].applied)
              => channels.channels = channels.arrived[k].id
                 /\ channels.channelCount = channels.arrived[k].id
    /\ (\A k \in 1..Len(channels.arrived) : ~channels.arrived[k].applied)
          => channels.channels = 0 /\ channels.channelCount = 0

\* Request 2 was answered and applied, and then the answer to request 1
\* came with success and was not applied.
C29_Witness ==
    /\ Len(channels.arrived) = 2
    /\ channels.arrived[1].id = 2
    /\ channels.arrived[1].applied
    /\ channels.arrived[2].id = 1
    /\ channels.arrived[2].outcome = "success"
    /\ channels.channels = 2

\* C30: when loads have been issued and none is in flight any more, the
\* loading flag is false.
C30_NotLoadingWhenNothingInFlight ==
    (channels.requestCounter > 0 /\ channels.pending = {}) => ~channels.loading

====
